---- MODULE Spec2Model ----
(***************************************************************************)
(* Delivery of the ignition payload into a libvirt domain, as implemented  *)
(* by pkg/cloud/libvirt/client/ignition.go.  Two revisions of the file are *)
(* in the repository: ignition.go (handle passed as a per-command          *)
(* environment, findfs-label lookup) and an earlier one (handle stored     *)
(* with os.Setenv, list-filesystems lookup).  The revision is chosen in    *)
(* the initial state and every definition below follows the chosen one.    *)
(*                                                                         *)
(* A Go string is a sequence of atoms; an atom is a fragment that holds no *)
(* separator other than itself, so strings.Split, strings.TrimSpace and    *)
(* bytes.Buffer.ReadString act on the sequence as they act on the bytes.   *)
(***************************************************************************)
EXTENDS Integers, Sequences, FiniteSets, TLC

VARIABLES
    rev,        \* which revision of the file is built into the process
    procs,      \* the provisioning attempts (goroutines) of this process
    pc,         \* pc[p]: the position of attempt p
    entry,      \* entry[p]: the function the caller invoked
    secretName, \* entry's ignition.UserDataSecret
    qemuArgs,   \* qemuArgs[p]: domainDef.QEMUCommandline.Args of p's domain
    qemuArgs0,  \* the same list as it was when the call started
    content,    \* ignitionDef.Content
    tmpFile,    \* tmpFile[p]: "none", "created", then "removed" or "removefail"
    fs,         \* the temporary files that exist, with their bytes
    volume,     \* volume[p]: the descriptor handed to uploadVolume
    volId,      \* volId[p]: the identifier createAndUpload returned
    env,        \* env[p]: the environment override captured from listen
    handle,     \* handle[p]: the first segment of what p's listen printed, once parsed
    output,     \* output[p]: the output of listen or of the lookup, until it is parsed
    bootDisk,   \* bootDisk[p]
    issued,     \* issued[p]: the external commands p launched, in order
    stream,     \* stream[p]: the write end of the stdout pipe of p's listen process
    osEnv,      \* the process-global environment (os.Setenv / os.Environ)
    err,        \* err[p]: the error the entry function returned
    ret         \* ret[p]: "none" while running, then "ok", "error", "panic"

vars == <<rev, procs, pc, entry, secretName, qemuArgs, qemuArgs0, content,
          tmpFile, fs, volume, volId, env, handle, output, bootDisk, issued, stream,
          osEnv, err, ret>>

-----------------------------------------------------------------------------
(* Bounds *)

MaxOut == 4
MaxLookup == 3
MaxPayload == 3

Attempts == {1, 2}

PrevRev == "part_000"
CurRev == "ignition.go"
Revisions == {CurRev, PrevRev}

-----------------------------------------------------------------------------
(* Strings *)

RECURSIVE Strs(_, _)
Strs(alphabet, n) ==
    IF n = 0 THEN {<<>>}
    ELSE LET shorter == Strs(alphabet, n - 1)
         IN  shorter \cup {Append(s, a) : s \in {t \in shorter : Len(t) = n - 1}, a \in alphabet}

Count(s, sep) == Cardinality({i \in 1..Len(s) : s[i] = sep})

FirstIndex(s, sep) == CHOOSE i \in 1..Len(s) : s[i] = sep /\ \A j \in 1..(i - 1) : s[j] # sep

\* strings.Split(s, sep): n separators give n + 1 segments, "" gives [""]
RECURSIVE Split(_, _)
Split(s, sep) ==
    IF Count(s, sep) = 0 THEN <<s>>
    ELSE LET i == FirstIndex(s, sep)
         IN  <<SubSeq(s, 1, i - 1)>> \o Split(SubSeq(s, i + 1, Len(s)), sep)

WhiteSpace == {" ", "\n"}

\* strings.TrimSpace(s): leading and trailing white space removed
RECURSIVE TrimLeft(_)
TrimLeft(s) == IF s # <<>> /\ Head(s) \in WhiteSpace THEN TrimLeft(Tail(s)) ELSE s

RECURSIVE TrimRight(_)
TrimRight(s) ==
    IF s # <<>> /\ s[Len(s)] \in WhiteSpace THEN TrimRight(SubSeq(s, 1, Len(s) - 1)) ELSE s

TrimSpace(s) == TrimRight(TrimLeft(s))

\* strings.Join(parts, sep)
RECURSIVE Join(_, _)
Join(parts, sep) ==
    IF parts = <<>> THEN <<>>
    ELSE IF Len(parts) = 1 THEN parts[1]
    ELSE parts[1] \o <<sep>> \o Join(Tail(parts), sep)

\* t occurs in s as a contiguous run
Contains(s, t) ==
    \E i \in 0..(Len(s) - Len(t)) : SubSeq(s, i + 1, i + Len(t)) = t

-----------------------------------------------------------------------------
(* Errors *)

NoErr == [kind |-> "nil", text |-> <<>>]

\* fmt.Errorf / errors.Wrapf: the message is the fixed text followed by the arguments
Errorf(kind, args) == [kind |-> kind, text |-> <<kind>> \o args]

-----------------------------------------------------------------------------
(* Process execution adapter *)

Str(a) == <<a>>

Executable == "guestfish"

\* genCmd (ignition.go); the earlier revision calls exec.Command(executable, args...)
\* directly.  argv is cmd.Args (argv[0] included), env is cmd.Env (<<>> is nil).
genCmd(useRoot, envOverride, args) ==
    IF rev = CurRev
    THEN [path |-> Str(IF useRoot THEN "sudo" ELSE Executable),
          argv |-> IF useRoot
                   THEN <<Str("sudo"), Str("--preserve-env"), Str(Executable)>> \o args
                   ELSE <<Str(Executable)>> \o args,
          env  |-> IF Len(envOverride) > 0 THEN envOverride ELSE <<>>]
    ELSE [path |-> Str(Executable),
          argv |-> <<Str(Executable)>> \o args,
          env  |-> <<>>]

\* the command line as the error messages print it ('%v %v')
CmdText(cmd) ==
    IF rev = CurRev
    THEN cmd.path \o <<" ">> \o Join(cmd.argv, " ")
    ELSE Str(Executable) \o <<" ">> \o Join(Tail(cmd.argv), " ")

\* the literal command line of a launched command
CmdLine(argv) == Join(argv, " ")

EnvEntry(e) == e.key \o <<"=">> \o e.val

\* os.Environ(): the entries of the process-global environment
Environ == {EnvEntry(e) : e \in osEnv}

\* the environment the launched process sees: cmd.Env, or the parent's when nil
ProcEnv(cmd) == IF cmd.env = <<>> THEN Environ ELSE {cmd.env[i] : i \in 1..Len(cmd.env)}

\* os.Setenv(key, value): EINVAL (ignored by the caller) for an empty key
Setenv(environ, key, val) ==
    IF key = <<>> THEN environ
    ELSE {e \in environ : e.key # key} \cup {[key |-> key, val |-> val]}

ExecOutcomes == {"ok", "launchfail", "nonzero"}

\* execCmd with the error of CombinedOutput dropped
execCmdErrSwallowed(cmd, outcome) == NoErr

\* execCmd with the error of CombinedOutput returned as it is
execCmdErrBare(cmd, outcome) ==
    IF outcome = "ok" THEN NoErr
    ELSE Errorf("exit status 1", <<>>)

\* execCmd: CombinedOutput's error, wrapped with the command line
execCmdErr(cmd, outcome) ==
    IF outcome = "ok" THEN NoErr
    ELSE Errorf("error running command", CmdText(cmd))

StartOutcomes == {"pipefail", "startfail", "readfail", "exit0", "exitNonzero"}

\* startCmd with the error of cmd.Start returned as it is
startCmdErrBare(cmd, outcome) ==
    CASE outcome = "pipefail"  -> Errorf("error getting stdout pipe for command", CmdText(cmd))
      [] outcome = "startfail" -> Errorf("exec: not found", <<>>)
      [] outcome = "readfail"  -> Errorf("read", <<>>)
      [] OTHER                 -> NoErr

\* startCmd: StdoutPipe, Start, readOutput; the process is never waited for,
\* so its exit status ("exit0" or "exitNonzero") is not seen
startCmdErr(cmd, outcome) ==
    CASE outcome = "pipefail"  -> Errorf("error getting stdout pipe for command", CmdText(cmd))
      [] outcome = "startfail" -> Errorf("error starting command", CmdText(cmd))
      [] outcome = "readfail"  -> Errorf("read", <<>>)
      [] OTHER                 -> NoErr

Launched(step, cmd, outcome) ==
    [step |-> step, argv |-> cmd.argv, penv |-> ProcEnv(cmd), outcome |-> outcome]

-----------------------------------------------------------------------------
(* injectIgnitionByGuestfish: parsing *)

\* the handle capture after a successful startCmd
\* res: "ok" (go on to run), "error" (return err), "panic" (index out of range)
ParseHandle(out) ==
    LET strArray  == Split(out, ";")
        strArray1 == Split(strArray[1], "=")
    IN  IF Len(strArray) # 2
        THEN [res |-> "error", err |-> Errorf("Invalid output when starting guestfish: ", out),
              env |-> <<>>, setenv |-> <<>>]
        ELSE IF rev = CurRev
        THEN IF Len(strArray1) # 2
             THEN [res |-> "error", err |-> Errorf("failed to get the guestfish PID from ", out),
                   env |-> <<>>, setenv |-> <<>>]
             ELSE [res |-> "ok", err |-> NoErr, env |-> <<strArray[1]>>, setenv |-> <<>>]
        ELSE \* the earlier revision tests len(strArray) a second time
             IF Len(strArray1) < 2
             THEN [res |-> "panic", err |-> Errorf("index out of range", <<>>),
                   env |-> <<>>, setenv |-> <<>>]
             ELSE [res |-> "ok", err |-> NoErr, env |-> <<>>,
                   setenv |-> <<strArray1[1], strArray1[2]>>]

\* the earlier revision's loop over the list-filesystems out
RECURSIVE ScanFilesystems(_)
ScanFilesystems(buf) ==
    IF Count(buf, "\n") = 0
    THEN [res |-> "ok", err |-> NoErr, bootDisk |-> <<>>]      \* io.EOF: break
    ELSE LET i    == FirstIndex(buf, "\n")
             line == SubSeq(buf, 1, i)                         \* the delimiter included
             diskAndFormat == Split(line, ":")
         IN  IF Len(diskAndFormat) # 2
             THEN [res |-> "error", err |-> Errorf("invalid filesystem format: ", line),
                   bootDisk |-> <<>>]
             ELSE IF diskAndFormat[2] = Str("ext4")
             THEN [res |-> "ok", err |-> NoErr, bootDisk |-> diskAndFormat[1]]
             ELSE ScanFilesystems(SubSeq(buf, i + 1, Len(buf)))

\* the boot filesystem from the lookup's out
FindBootDisk(out) ==
    IF rev = CurRev
    THEN LET trimmed == TrimSpace(out)
         IN  IF Len(trimmed) = 0
             THEN [res |-> "error", err |-> Errorf("failed to get the boot filesystem", <<>>),
                   bootDisk |-> <<>>]
             ELSE [res |-> "ok", err |-> NoErr, bootDisk |-> trimmed]
    ELSE ScanFilesystems(out)

LookupArgs ==
    IF rev = CurRev
    THEN <<Str("--remote"), Str("--"), Str("findfs-label"), Str("boot")>>
    ELSE <<Str("--remote"), Str("--"), Str("list-filesystems")>>

-----------------------------------------------------------------------------
(* What the external tool may print *)

Pid(p) == IF p = 1 THEN "4513" ELSE "4514"

DiskFile(p) == IF p = 1 THEN Str("/var/lib/libvirt/images/m1") ELSE Str("/var/lib/libvirt/images/m2")

Trailer == " export GUESTFISH_PID"

\* what guestfish --listen may print: any text, with or without the export clause
ListenTexts(pid) ==
    LET texts == Strs({"GUESTFISH_PID", "=", pid, ";"}, MaxOut)
    IN  texts \cup {Append(s, Trailer) : s \in texts}

ListenOutputs1 == ListenTexts("4513")

ListenOutputs2 == ListenTexts("4514")

ListenOutputs(p) == IF p = 1 THEN ListenOutputs1 ELSE ListenOutputs2

\* the line guestfish --listen documents
HandleLines(p) == {<<"GUESTFISH_PID", "=", Pid(p), ";", Trailer>>}

LookupOutputs ==
    IF rev = CurRev
    THEN Strs({"/dev/sda1", " ", "\n"}, MaxLookup)
    ELSE Strs({"/dev/sda1", ":", "ext4", "\n"}, MaxLookup)

UsualLookups ==
    IF rev = CurRev
    THEN {<<"/dev/sda1", "\n">>, <<"\n">>}
    ELSE {<<"/dev/sda1", ":", " ", "ext4", "\n">>, <<"/dev/sda1", ":", "ext4">>}

-----------------------------------------------------------------------------
(* injectIgnitionByGuestfish: the steps *)

Return(p, e) ==
    /\ pc' = [pc EXCEPT ![p] = "done"]
    /\ err' = [err EXCEPT ![p] = e]
    /\ ret' = [ret EXCEPT ![p] = IF e = NoErr THEN "ok" ELSE "error"]

Panic(p, e) ==
    /\ pc' = [pc EXCEPT ![p] = "done"]
    /\ err' = [err EXCEPT ![p] = e]
    /\ ret' = [ret EXCEPT ![p] = "panic"]

Goto(p, label) ==
    /\ pc' = [pc EXCEPT ![p] = label]
    /\ UNCHANGED <<err, ret>>

\* the override the remote commands of p are launched with
Override(p) == env[p]

\* one synchronous remote command and the early return after it
Remote(p, step, args, next) ==
    \E outcome \in ExecOutcomes :
        LET cmd == genCmd(TRUE, Override(p), args)
            e   == execCmdErr(cmd, outcome)
        IN  /\ issued' = [issued EXCEPT ![p] = Append(@, Launched(step, cmd, outcome))]
            /\ IF e # NoErr THEN Return(p, e)
               ELSE IF next = "return" THEN Return(p, NoErr)
               ELSE Goto(p, next)

frame == <<rev, procs, entry, secretName, qemuArgs, qemuArgs0, content, tmpFile, fs,
           volume, volId>>

\* what the steps after the handle capture leave alone
kept == <<frame, env, handle, osEnv, stream>>

ListenArgs(p) == <<Str("--listen"), Str("-a"), DiskFile(p)>>

\* startCmd(true, nil, "--listen", "-a", disk), up to cmd.Start
Listen(p) ==
    /\ p \in procs
    /\ pc[p] = "listen"
    /\ \E outcome \in StartOutcomes :
         LET cmd == genCmd(TRUE, <<>>, ListenArgs(p))
         IN  /\ issued' = [issued EXCEPT ![p] = Append(@, Launched("listen", cmd, outcome))]
             /\ IF outcome \in {"pipefail", "startfail"}
                THEN Return(p, startCmdErr(cmd, outcome)) /\ UNCHANGED stream
                ELSE /\ stream' = [stream EXCEPT ![p] = "open"]
                     /\ Goto(p, "readOutput")
    /\ UNCHANGED <<frame, env, handle, osEnv, output, bootDisk>>

\* the listen process, or the last process that inherited its stdout, closes it
CloseStdout(p) ==
    /\ p \in procs
    /\ stream[p] = "open"
    /\ stream' = [stream EXCEPT ![p] = "closed"]
    /\ UNCHANGED <<frame, env, handle, osEnv, output, bootDisk, issued, pc, err, ret>>

\* readOutput as startCmd calls it: buf.ReadFrom(stdout) returns at end of file,
\* that is once the write end is closed, or on a read error
ReadOutput(p, outputs) ==
    /\ p \in procs
    /\ pc[p] = "readOutput"
    /\ LET cmd == genCmd(TRUE, <<>>, ListenArgs(p))
           e   == startCmdErr(cmd, issued[p][1].outcome)
       IN  IF e # NoErr
           THEN Return(p, e) /\ UNCHANGED output
           ELSE /\ stream[p] = "closed"
                /\ \E o \in outputs :
                     /\ output' = [output EXCEPT ![p] = o]
                     /\ Goto(p, "capture")
    /\ UNCHANGED <<kept, issued, bootDisk>>

\* the handle capture between startCmd and run
CaptureHandle(p) ==
    /\ p \in procs
    /\ pc[p] = "capture"
    /\ LET h == ParseHandle(output[p])
       IN  CASE h.res = "error" -> Return(p, h.err) /\ UNCHANGED <<env, handle, osEnv>>
             [] h.res = "panic" -> Panic(p, h.err) /\ UNCHANGED <<env, handle, osEnv>>
             [] OTHER ->
                  /\ env' = [env EXCEPT ![p] = h.env]
                  /\ handle' = [handle EXCEPT ![p] = Split(output[p], ";")[1]]
                  /\ osEnv' = IF h.setenv = <<>> THEN osEnv
                              ELSE Setenv(osEnv, h.setenv[1], h.setenv[2])
                  /\ Goto(p, "run")
    /\ output' = [output EXCEPT ![p] = <<>>]
    /\ UNCHANGED <<frame, issued, bootDisk, stream>>

Run(p) ==
    /\ p \in procs
    /\ pc[p] = "run"
    /\ Remote(p, "run", <<Str("--remote"), Str("--"), Str("run")>>, "lookup")
    /\ UNCHANGED <<kept, output, bootDisk>>

\* execCmd of the filesystem lookup
Lookup(p, outputs) ==
    /\ p \in procs
    /\ pc[p] = "lookup"
    /\ \E outcome \in ExecOutcomes :
         LET cmd == genCmd(TRUE, Override(p), LookupArgs)
             e   == execCmdErr(cmd, outcome)
         IN  /\ issued' = [issued EXCEPT ![p] = Append(@, Launched("lookup", cmd, outcome))]
             /\ IF e # NoErr
                THEN Return(p, e) /\ UNCHANGED output
                ELSE \E o \in outputs :
                        /\ output' = [output EXCEPT ![p] = o]
                        /\ Goto(p, "findBoot")
    /\ UNCHANGED <<kept, bootDisk>>

\* the boot filesystem taken from the lookup's output, between the lookup and mount
FindBoot(p) ==
    /\ p \in procs
    /\ pc[p] = "findBoot"
    /\ LET b == FindBootDisk(output[p])
       IN  IF b.res = "error"
           THEN Return(p, b.err) /\ UNCHANGED bootDisk
           ELSE /\ bootDisk' = [bootDisk EXCEPT ![p] = b.bootDisk]
                /\ Goto(p, "mount")
    /\ output' = [output EXCEPT ![p] = <<>>]
    /\ UNCHANGED <<kept, issued>>

Mount(p) ==
    /\ p \in procs
    /\ pc[p] = "mount"
    /\ Remote(p, "mount", <<Str("--remote"), Str("--"), Str("mount"), bootDisk[p], Str("/")>>,
              "upload")
    /\ UNCHANGED <<kept, output, bootDisk>>

Upload(p) ==
    /\ p \in procs
    /\ pc[p] = "upload"
    /\ Remote(p, "upload", <<Str("--remote"), Str("--"), Str("upload"), volId[p],
                             Str("/ignition/config.ign")>>, "umount")
    /\ UNCHANGED <<kept, output, bootDisk>>

Umount(p) ==
    /\ p \in procs
    /\ pc[p] = "umount"
    /\ Remote(p, "umount-all", <<Str("--remote"), Str("--"), Str("umount-all")>>, "exit")
    /\ UNCHANGED <<kept, output, bootDisk>>

Exit(p) ==
    /\ p \in procs
    /\ pc[p] = "exit"
    /\ Remote(p, "exit", <<Str("--remote"), Str("--"), Str("exit")>>, "return")
    /\ UNCHANGED <<kept, output, bootDisk>>

-----------------------------------------------------------------------------
(* Two injection sessions running in one process *)

VolumeKey(p) == IF p = 1 THEN Str("/pool/m1.ign") ELSE Str("/pool/m2.ign")

InitialEnviron == {[key |-> Str("PATH"), val |-> Str("/usr/bin")]}

NoVolume == [name |-> <<>>, unit |-> "", value |-> 0, format |-> ""]

InitConc ==
    /\ rev \in Revisions
    /\ procs = Attempts
    /\ pc = [p \in Attempts |-> "listen"]
    /\ entry = [p \in Attempts |-> "injectIgnitionByGuestfish"]
    /\ secretName = [p \in Attempts |-> <<>>]
    /\ qemuArgs = [p \in Attempts |-> <<>>]
    /\ qemuArgs0 = [p \in Attempts |-> <<>>]
    /\ content = [p \in Attempts |-> <<>>]
    /\ tmpFile = [p \in Attempts |-> "none"]
    /\ fs = {}
    /\ volume = [p \in Attempts |-> NoVolume]
    /\ volId = [p \in Attempts |-> VolumeKey(p)]
    /\ env = [p \in Attempts |-> <<>>]
    /\ handle = [p \in Attempts |-> <<>>]
    /\ output = [p \in Attempts |-> <<>>]
    /\ bootDisk = [p \in Attempts |-> <<>>]
    /\ issued = [p \in Attempts |-> <<>>]
    /\ stream = [p \in Attempts |-> "none"]
    /\ osEnv = InitialEnviron
    /\ err = [p \in Attempts |-> NoErr]
    /\ ret = [p \in Attempts |-> "none"]

NextConc ==
    \/ \E p \in Attempts : Listen(p)
    \/ \E p \in Attempts : CloseStdout(p)
    \/ \E p \in Attempts : ReadOutput(p, HandleLines(p))
    \/ \E p \in Attempts : CaptureHandle(p)
    \/ \E p \in Attempts : Run(p)
    \/ \E p \in Attempts : Lookup(p, UsualLookups)
    \/ \E p \in Attempts : FindBoot(p)
    \/ \E p \in Attempts : Mount(p)
    \/ \E p \in Attempts : Upload(p)
    \/ \E p \in Attempts : Umount(p)
    \/ \E p \in Attempts : Exit(p)

SpecConc == InitConc /\ [][NextConc]_vars

-----------------------------------------------------------------------------
(* createFile: what the payload is *)

\* the local filesystem createFile looks the payload up in
LocalFiles ==
    (Str("/etc/ign.json") :> [kind |-> "file", readable |-> TRUE,  bytes |-> <<"{", "}">>]) @@
    (Str("/etc/shadow")   :> [kind |-> "file", readable |-> FALSE, bytes |-> <<"x">>]) @@
    (Str("/etc")          :> [kind |-> "dir",  readable |-> TRUE,  bytes |-> <<>>])

\* os.Stat(path) returns no error
StatOk(path) == path \in DOMAIN LocalFiles

JsonTokens == {"{", "}", "[", "]", "null", "\"k\"", ":"}

JsonScalars == {"null", "\"k\""}

\* the syntax check of encoding/json over the tokens of a document (no commas:
\* arrays of at most one element, objects of at most one member);
\* ValueEnd(s, i) is the index after the value that starts at i, 0 when there is none
RECURSIVE ValueEnd(_, _)
ValueEnd(s, i) ==
    IF i > Len(s) THEN 0
    ELSE CASE s[i] \in JsonScalars -> i + 1
           [] s[i] = "[" ->
                IF i + 1 <= Len(s) /\ s[i + 1] = "]" THEN i + 2
                ELSE LET j == ValueEnd(s, i + 1)
                     IN  IF j # 0 /\ j <= Len(s) /\ s[j] = "]" THEN j + 1 ELSE 0
           [] s[i] = "{" ->
                IF i + 1 <= Len(s) /\ s[i + 1] = "}" THEN i + 2
                ELSE IF i + 2 <= Len(s) /\ s[i + 1] = "\"k\"" /\ s[i + 2] = ":"
                THEN LET j == ValueEnd(s, i + 3)
                     IN  IF j # 0 /\ j <= Len(s) /\ s[j] = "}" THEN j + 1 ELSE 0
                ELSE 0
           [] OTHER -> 0

\* white space between the tokens of a document is insignificant
Compact(s) == SelectSeq(s, LAMBDA a : a \notin WhiteSpace)

ValidJson(s) == Compact(s) # <<>> /\ ValueEnd(Compact(s), 1) = Len(Compact(s)) + 1

IsJsonObject(s) == ValidJson(s) /\ Compact(s)[1] = "{"

\* json.Unmarshal([]byte(content), &js), js a map[string]interface{}, returns nil:
\* a syntax error fails, a value of another kind is an UnmarshalTypeError, and
\* the literal null leaves the map nil without an error
UnmarshalOk(s) == ValidJson(s) /\ Compact(s)[1] \in {"{", "null"}

\* documents with white space between and after their tokens
SpacedPayloads == {<<"{", " ", "}">>, <<"null", "\n">>}

Payloads ==
    Strs(JsonTokens, MaxPayload) \cup SpacedPayloads
        \cup DOMAIN LocalFiles \cup {Str("/nonexistent")}

\* the document written again from its tokens
WriteStringCompacted(c) == Compact(c)

\* tempFile.WriteString(ign.Content): the bytes the inline payload puts in the file
WriteString(c) == c

-----------------------------------------------------------------------------
(* The collaborators of createAndUpload: image probe and pool upload *)

\* img.size(): the byte length of the local file
ImageSize(bytes) == Len(bytes)

\* the capacity rounded up to whole two-byte blocks
VolumeDefPadded(name, size) ==
    [name |-> name, unit |-> "B", value |-> size + (size % 2), format |-> "raw"]

\* newDefVolume(name) with the capacity and format createAndUpload sets
VolumeDef(name, size) == [name |-> name, unit |-> "B", value |-> size, format |-> "raw"]

VolumeName(p) == IF p = 1 THEN Str("m1.ign") ELSE Str("m2.ign")

-----------------------------------------------------------------------------
(* setIgnition, setIgnitionForS390X, createAndUpload, createFile *)

Entries == {"setIgnition", "setIgnitionForS390X"}

PriorArgs == {<<>>, <<Str("-nographic")>>}

SecretNames == {<<>>, Str("worker-user-data")}

TmpOf(p) == {f \in fs : f.owner = p}

\* the name ioutil.TempFile("", ign.Name) gives the temporary file
TmpPath(p) == IF p = 1 THEN Str("/tmp/m1.ign370411") ELSE Str("/tmp/m2.ign558203")

sessionVars == <<env, handle, output, bootDisk, issued, stream, osEnv>>

\* the entry function asking the secret store whatever the secret name is
CallQueriesAnyway(p) ==
    /\ p \in procs
    /\ pc[p] = "idle"
    /\ \E e \in Entries, n \in SecretNames, a \in PriorArgs :
         /\ entry' = [entry EXCEPT ![p] = e]
         /\ secretName' = [secretName EXCEPT ![p] = n]
         /\ qemuArgs' = [qemuArgs EXCEPT ![p] = a]
         /\ qemuArgs0' = [qemuArgs0 EXCEPT ![p] = a]
         /\ Goto(p, "secret")
    /\ UNCHANGED <<rev, procs, content, tmpFile, fs, volume, volId, sessionVars>>

\* the caller invokes setIgnition or setIgnitionForS390X; the secret name is tested first
Call(p) ==
    /\ p \in procs
    /\ pc[p] = "idle"
    /\ \E e \in Entries, n \in SecretNames, a \in PriorArgs :
         /\ entry' = [entry EXCEPT ![p] = e]
         /\ secretName' = [secretName EXCEPT ![p] = n]
         /\ qemuArgs' = [qemuArgs EXCEPT ![p] = a]
         /\ qemuArgs0' = [qemuArgs0 EXCEPT ![p] = a]
         /\ IF n = <<>>
            THEN Return(p, Errorf("ignition.userDataSecret not set", <<>>))
            ELSE Goto(p, "secret")
    /\ UNCHANGED <<rev, procs, content, tmpFile, fs, volume, volId, sessionVars>>

\* kubeClient.CoreV1().Secrets(ns).Get(name) and the userData key
GetSecret(p) ==
    /\ p \in procs
    /\ pc[p] = "secret"
    /\ \/ /\ Return(p, Errorf("can not retrieve user data secret", secretName[p]))
          /\ UNCHANGED content
       \/ /\ Return(p, Errorf("key 'userData' not found in the secret", secretName[p]))
          /\ UNCHANGED content
       \/ \E c \in Payloads :
            /\ content' = [content EXCEPT ![p] = c]
            /\ Goto(p, "createFile")
    /\ UNCHANGED <<rev, procs, entry, secretName, qemuArgs, qemuArgs0, tmpFile, fs,
                   volume, volId, sessionVars>>

Prefixes(s) == {SubSeq(s, 1, n) : n \in 0..(Len(s) - 1)}

\* createFile as createAndUpload calls it; a failure returns from createAndUpload
\* (line 275) and from the entry function before the deferred removal is set up
CreateFile(p) ==
    /\ p \in procs
    /\ pc[p] = "createFile"
    /\ \/ \* ioutil.TempFile fails
          /\ Return(p, Errorf("Cannot create tmp file for Ignition: ", <<>>))
          /\ UNCHANGED <<tmpFile, fs>>
       \/ \* the temporary file exists from here on
          /\ tmpFile' = [tmpFile EXCEPT ![p] = "created"]
          /\ LET c == content[p]
             IN  IF ~StatOk(c)
                 THEN IF ~UnmarshalOk(c)
                      THEN /\ fs' = fs \cup {[owner |-> p, bytes |-> <<>>]}
                           /\ Return(p, Errorf("coreos_ignition 'content' is neither a file nor a valid json object ", c))
                      ELSE \/ /\ fs' = fs \cup {[owner |-> p, bytes |-> WriteString(c)]}
                              /\ Goto(p, "newImage")
                           \/ \E w \in Prefixes(WriteString(c)) :
                                /\ fs' = fs \cup {[owner |-> p, bytes |-> w]}
                                /\ Return(p, Errorf("Cannot write Ignition object to temporary ignition file", <<>>))
                 ELSE IF ~LocalFiles[c].readable
                      THEN /\ fs' = fs \cup {[owner |-> p, bytes |-> <<>>]}
                           /\ Return(p, Errorf("Error opening supplied Ignition file ", c))
                      ELSE IF LocalFiles[c].kind = "dir"
                      THEN /\ fs' = fs \cup {[owner |-> p, bytes |-> <<>>]}
                           /\ Return(p, Errorf("Error copying supplied Igition file to temporary file: ", c))
                      ELSE \/ /\ fs' = fs \cup {[owner |-> p, bytes |-> LocalFiles[c].bytes]}
                              /\ Goto(p, "newImage")
                           \/ \E w \in Prefixes(LocalFiles[c].bytes) :
                                /\ fs' = fs \cup {[owner |-> p, bytes |-> w]}
                                /\ Return(p, Errorf("Error copying supplied Igition file to temporary file: ", c))
    /\ UNCHANGED <<rev, procs, entry, secretName, qemuArgs, qemuArgs0, content,
                   volume, volId, sessionVars>>

RemoveOutcomes == {"removed", "removefail"}

\* createAndUpload returning without the removal
DeferredRemoveMissing(p, outcome) == UNCHANGED <<fs, tmpFile>>

\* the deferred os.Remove(ignFile) of createAndUpload; a failure is logged only
DeferredRemove(p, outcome) ==
    /\ fs' = IF outcome = "removed" THEN fs \ TmpOf(p) ELSE fs
    /\ tmpFile' = [tmpFile EXCEPT ![p] = outcome]

\* the error of os.Remove, which the deferred closure assigns to err
RemoveErr(outcome) == IF outcome = "removed" THEN NoErr ELSE Errorf("remove", <<>>)

\* the error createAndUpload returns when its return statement evaluated e and the
\* deferred removal ended with outcome: the results are unnamed, so the closure's
\* assignment to the local err comes too late to change what is returned
AfterDefer(e, outcome) == e

\* newImage(ignFile) and img.size()
Probe(p) ==
    /\ p \in procs
    /\ pc[p] = "newImage"
    /\ \/ \E rm \in RemoveOutcomes :
            /\ DeferredRemove(p, rm)
            /\ \/ Return(p, AfterDefer(Errorf("newImage", <<>>), rm))
               \/ Return(p, AfterDefer(Errorf("size", <<>>), rm))
            /\ UNCHANGED volume
       \/ /\ \E f \in TmpOf(p) :
               volume' = [volume EXCEPT ![p] = VolumeDef(VolumeName(p), ImageSize(f.bytes))]
          /\ Goto(p, "uploadVolume")
          /\ UNCHANGED <<fs, tmpFile>>
    /\ UNCHANGED <<rev, procs, entry, secretName, qemuArgs, qemuArgs0, content,
                   volId, sessionVars>>

\* uploadVolume(ign.PoolName, client, volumeDef, img), then the deferred removal,
\* then the entry function's test of the error
UploadVolume(p) ==
    /\ p \in procs
    /\ pc[p] = "uploadVolume"
    /\ \E rm \in RemoveOutcomes :
         /\ DeferredRemove(p, rm)
         /\ \/ /\ Return(p, AfterDefer(Errorf("uploadVolume", <<>>), rm))
               /\ UNCHANGED volId
            \/ /\ volId' = [volId EXCEPT ![p] = VolumeKey(p)]
               /\ IF AfterDefer(NoErr, rm) # NoErr
                  THEN Return(p, AfterDefer(NoErr, rm))
                  ELSE Goto(p, IF entry[p] = "setIgnition" THEN "fwcfg" ELSE "listen")
    /\ UNCHANGED <<rev, procs, entry, secretName, qemuArgs, qemuArgs0, content,
                   volume, sessionVars>>

FwCfgName == "name=opt/com.coreos/config,file="

\* the value of domainDef.QEMUCommandline.Args after setIgnition's assignment
FwCfgArgs(before, id) == <<Str("-fw_cfg"), Str(FwCfgName) \o id>>

\* setIgnition going on to the guestfish session after it wrote the directive
SetFwCfgAndInject(p) ==
    /\ p \in procs
    /\ pc[p] = "fwcfg"
    /\ qemuArgs' = [qemuArgs EXCEPT ![p] = FwCfgArgs(qemuArgs[p], volId[p])]
    /\ Goto(p, "listen")
    /\ UNCHANGED <<rev, procs, entry, secretName, qemuArgs0, content, tmpFile, fs,
                   volume, volId, sessionVars>>

\* setIgnition writing the directive before it returns the error of createAndUpload
SetFwCfgBeforeErrorTest(p) ==
    /\ p \in procs
    /\ pc[p] = "fwcfg"
    /\ qemuArgs' = [qemuArgs EXCEPT ![p] = FwCfgArgs(qemuArgs[p], volId[p])]
    /\ \/ Return(p, NoErr)
       \/ Return(p, Errorf("uploadVolume", <<>>))
    /\ UNCHANGED <<rev, procs, entry, secretName, qemuArgs0, content, tmpFile, fs,
                   volume, volId, sessionVars>>

\* setIgnition, lines 50-61
SetFwCfg(p) ==
    /\ p \in procs
    /\ pc[p] = "fwcfg"
    /\ qemuArgs' = [qemuArgs EXCEPT ![p] = FwCfgArgs(qemuArgs[p], volId[p])]
    /\ Return(p, NoErr)
    /\ UNCHANGED <<rev, procs, entry, secretName, qemuArgs0, content, tmpFile, fs,
                   volume, volId, sessionVars>>

-----------------------------------------------------------------------------
(* One provisioning attempt *)

Init ==
    /\ rev \in Revisions
    /\ procs = {1}
    /\ pc = [p \in Attempts |-> "idle"]
    /\ entry = [p \in Attempts |-> "none"]
    /\ secretName = [p \in Attempts |-> <<>>]
    /\ qemuArgs = [p \in Attempts |-> <<>>]
    /\ qemuArgs0 = [p \in Attempts |-> <<>>]
    /\ content = [p \in Attempts |-> <<>>]
    /\ tmpFile = [p \in Attempts |-> "none"]
    /\ fs = {}
    /\ volume = [p \in Attempts |-> NoVolume]
    /\ volId = [p \in Attempts |-> <<>>]
    /\ env = [p \in Attempts |-> <<>>]
    /\ handle = [p \in Attempts |-> <<>>]
    /\ output = [p \in Attempts |-> <<>>]
    /\ bootDisk = [p \in Attempts |-> <<>>]
    /\ issued = [p \in Attempts |-> <<>>]
    /\ stream = [p \in Attempts |-> "none"]
    /\ osEnv = InitialEnviron
    /\ err = [p \in Attempts |-> NoErr]
    /\ ret = [p \in Attempts |-> "none"]

Next ==
    \/ \E p \in Attempts : Call(p)
    \/ \E p \in Attempts : GetSecret(p)
    \/ \E p \in Attempts : CreateFile(p)
    \/ \E p \in Attempts : Probe(p)
    \/ \E p \in Attempts : UploadVolume(p)
    \/ \E p \in Attempts : SetFwCfg(p)
    \/ \E p \in Attempts : Listen(p)
    \/ \E p \in Attempts : CloseStdout(p)
    \/ \E p \in Attempts : ReadOutput(p, ListenOutputs(p))
    \/ \E p \in Attempts : CaptureHandle(p)
    \/ \E p \in Attempts : Run(p)
    \/ \E p \in Attempts : Lookup(p, LookupOutputs)
    \/ \E p \in Attempts : FindBoot(p)
    \/ \E p \in Attempts : Mount(p)
    \/ \E p \in Attempts : Upload(p)
    \/ \E p \in Attempts : Umount(p)
    \/ \E p \in Attempts : Exit(p)

Spec == Init /\ [][Next]_vars

-----------------------------------------------------------------------------
(* Properties of the injection session *)

StepOrder == <<"listen", "run", "lookup", "mount", "upload", "umount-all", "exit">>

Returned(p) == pc[p] = "done"

\* the adapter call of a launched command returned no error
AdapterOk(c) == c.outcome \in {"ok", "exit0", "exitNonzero"}

ListenSucceeded(p) == Len(issued[p]) >= 1 /\ AdapterOk(issued[p][1])

StepsIssued(p) == {issued[p][i].step : i \in 1..Len(issued[p])}

\* C1: every attempt whose listen step succeeded has issued the remote exit
\* command by the time it returns, whatever intermediate step failed.
C1_ExitIssuedBeforeReturn ==
    \A p \in procs :
        (Returned(p) /\ ListenSucceeded(p)) => "exit" \in StepsIssued(p)

\* C2: the commands an attempt has issued are a prefix of listen, run, lookup,
\* mount, upload, umount-all, exit: each at most once, in this order, none
\* skipped, and none issued unless the call of its predecessor returned no error.
C2_FixedOrder ==
    \A p \in procs :
        /\ Len(issued[p]) <= Len(StepOrder)
        /\ \A i \in 1..Len(issued[p]) :
              /\ issued[p][i].step = StepOrder[i]
              /\ i > 1 => AdapterOk(issued[p][i - 1])

\* an attempt that went through all seven steps
C2_Witness ==
    \E p \in procs : Len(issued[p]) = Len(StepOrder) /\ ret[p] = "ok"

\* C3: when run, the lookup, mount, upload or umount-all fails, it is the last
\* command the attempt issues and the attempt returns an error whose text holds
\* the literal command line of the failing command.
C3_FailureShortCircuits ==
    \A p \in procs :
        \A i \in 1..Len(issued[p]) :
            (/\ issued[p][i].step \in {"run", "lookup", "mount", "upload", "umount-all"}
             /\ issued[p][i].outcome \in {"launchfail", "nonzero"})
            => /\ i = Len(issued[p])
               /\ Returned(p)
               /\ ret[p] = "error"
               /\ Contains(err[p].text, CmdLine(issued[p][i].argv))

\* an attempt whose mount failed
C3_Witness ==
    \E p \in procs :
        /\ Returned(p)
        /\ Len(issued[p]) = 4
        /\ issued[p][4].step = "mount"
        /\ issued[p][4].outcome = "nonzero"

-----------------------------------------------------------------------------
(* Properties of createAndUpload and createFile *)

BeforeReturnOfUpload == {"idle", "secret", "createFile", "newImage", "uploadVolume"}

\* C4: once createAndUpload has returned, on whatever path, the temporary file
\* of the attempt is gone (a removal that the operating system refused aside),
\* and at no time does the attempt own more than one temporary file.
C4_NoTemporaryFileLeft ==
    \A p \in procs :
        /\ Cardinality(TmpOf(p)) <= 1
        /\ (pc[p] \notin BeforeReturnOfUpload /\ tmpFile[p] # "removefail")
              => TmpOf(p) = {}

-----------------------------------------------------------------------------
(* Properties of concurrent sessions *)

RemoteCommands(p) == {i \in 1..Len(issued[p]) : issued[p][i].step # "listen"}

\* C5: every remote command of a session runs with the handle that session's own
\* listen printed and never with the handle of the other session, and the
\* process-global environment is what it was before the sessions started.
C5_OwnHandleOnly ==
    /\ \A p \in procs : \A i \in RemoteCommands(p) :
          /\ handle[p] \in issued[p][i].penv
          /\ \A q \in procs \ {p} :
                (handle[q] # <<>> /\ handle[q] # handle[p]) => handle[q] \notin issued[p][i].penv
    /\ osEnv = InitialEnviron

-----------------------------------------------------------------------------
(* Properties of the parsing steps *)

\* the output has exactly two ';' segments and the first has exactly two '=' parts
WellFormedHandle(o) ==
    /\ Len(Split(o, ";")) = 2
    /\ Len(Split(Split(o, ";")[1], "=")) = 2

\* the environment entries a remote command of p is launched with
CarriedEnv(p) == ProcEnv(genCmd(TRUE, Override(p), <<>>))

\* C6: the handle capture goes on to run exactly when the listen output is well
\* formed, and then the first segment, verbatim, is an environment entry of every
\* remote command; for any other output the attempt returns an error, does not
\* crash and issues no remote command.
C6_HandleCapture ==
    /\ [][\A p \in procs : pc[p] = "capture" =>
            /\ (pc'[p] = "run") <=> WellFormedHandle(output[p])
            /\ pc'[p] = "run" => Split(output[p], ";")[1] \in CarriedEnv(p)'
            /\ pc'[p] # "run" => (ret'[p] = "error" /\ issued'[p] = issued[p])]_vars
    /\ [](\A p \in procs :
            /\ ret[p] # "panic"
            /\ \A i \in RemoteCommands(p) : handle[p] \in issued[p][i].penv)

\* the device argument of a launched mount command
MountDevice(c) == c.argv[Len(c.argv) - 1]

\* C7: mount is issued only with a non-empty device, the lookup's output trimmed
\* of white space; when that is empty the attempt returns an error and issues
\* neither mount nor upload.
C7_BootDevice ==
    /\ [][\A p \in procs : pc[p] = "findBoot" =>
            IF TrimSpace(output[p]) = <<>>
            THEN ret'[p] = "error" /\ issued'[p] = issued[p]
            ELSE pc'[p] = "mount" /\ bootDisk'[p] = TrimSpace(output[p])]_vars
    /\ [](\A p \in procs : \A i \in 1..Len(issued[p]) :
            issued[p][i].step = "mount" =>
                (MountDevice(issued[p][i]) # <<>> /\ MountDevice(issued[p][i]) = bootDisk[p]))

-----------------------------------------------------------------------------
(* Properties of the firmware path and of the adapter's errors *)

\* C8: after a successful setIgnition the extra QEMU arguments are those the
\* domain had before the call followed by -fw_cfg and
\* name=opt/com.coreos/config,file=<identifier returned by the upload>.
C8_FwCfgAppended ==
    \A p \in procs :
        (entry[p] = "setIgnition" /\ ret[p] = "ok")
            => qemuArgs[p] = qemuArgs0[p] \o <<Str("-fw_cfg"), Str(FwCfgName) \o volId[p]>>

\* a launch failure or a non-zero exit, of listen as of any other command
FailedCommand(c) == c.outcome \in {"pipefail", "startfail", "exitNonzero", "launchfail", "nonzero"}

\* a launch failure of any command, or a non-zero exit of a command that execCmd ran
SeenFailure(c) == c.outcome \in {"pipefail", "startfail", "launchfail", "nonzero"}

\* C9 as stated: an attempt that has returned after a launch failure or a non-zero
\* exit of any of its commands, listen included, returned an error that holds the
\* command line of that command.
C9_EveryFailureReported ==
    \A p \in procs : Returned(p) =>
        \A i \in 1..Len(issued[p]) :
            FailedCommand(issued[p][i]) =>
                (ret[p] = "error" /\ Contains(err[p].text, CmdLine(issued[p][i].argv)))

\* C9 as amended: the same for every launch failure and for the non-zero exit of
\* every command run with execCmd; the exit status of the listen process, which
\* startCmd does not wait for, is left out.
C9_SeenFailureReported ==
    \A p \in procs : Returned(p) =>
        \A i \in 1..Len(issued[p]) :
            SeenFailure(issued[p][i]) =>
                (ret[p] = "error" /\ Contains(err[p].text, CmdLine(issued[p][i].argv)))

\* an attempt whose listen command could not be started
C9_Witness ==
    \E p \in procs :
        /\ Returned(p)
        /\ Len(issued[p]) = 1
        /\ issued[p][1].outcome = "startfail"

-----------------------------------------------------------------------------
(* Properties of the payload *)

ReadableFile(c) == StatOk(c) /\ LocalFiles[c].kind = "file" /\ LocalFiles[c].readable

CreateFileErrors ==
    {"Cannot create tmp file for Ignition: ",
     "coreos_ignition 'content' is neither a file nor a valid json object ",
     "Cannot write Ignition object to temporary ignition file",
     "Error opening supplied Ignition file ",
     "Error copying supplied Igition file to temporary file: "}

InvalidConfiguration == "coreos_ignition 'content' is neither a file nor a valid json object "

CreateFileSucceeded(p) == pc[p] = "newImage"

CreateFileFailed(p) == Returned(p) /\ err[p].kind \in CreateFileErrors

\* C10: createFile succeeds only for a payload that names a readable file or is a
\* JSON object, fails for every other payload, with the invalid-configuration
\* error when the payload is neither a file nor a JSON object, and fails for a
\* readable file or a JSON object only on an input/output error.
C10_ResolverAcceptsFilesAndObjects ==
    \A p \in procs :
        /\ CreateFileSucceeded(p) => (ReadableFile(content[p]) \/ IsJsonObject(content[p]))
        /\ (CreateFileFailed(p) /\ ~StatOk(content[p]) /\ ~IsJsonObject(content[p])
              /\ err[p].kind # "Cannot create tmp file for Ignition: ")
              => err[p].kind = InvalidConfiguration
        /\ (CreateFileFailed(p) /\ (ReadableFile(content[p]) \/ IsJsonObject(content[p])))
              => err[p].kind # InvalidConfiguration

-----------------------------------------------------------------------------
(* Properties of the privilege-escalation mode *)

\* the command was wrapped with the elevation prefix
UseRoot(c) == c.argv[1] = Str("sudo")

\* C11: a remote command launched in privilege-escalation mode with a non-empty
\* environment override is handed the caller's environment variables as well as
\* the override entry; the override does not replace the caller's environment.
C11_CallerEnvPreserved ==
    \A p \in procs : \A i \in RemoteCommands(p) :
        (UseRoot(issued[p][i]) /\ env[p] # <<>>)
            => /\ \A k \in 1..Len(env[p]) : env[p][k] \in issued[p][i].penv
               /\ Environ \subseteq issued[p][i].penv

-----------------------------------------------------------------------------
(* Properties of the two delivery paths *)

\* the source argument of a launched remote upload command
UploadSource(c) == c.argv[Len(c.argv) - 1]

\* C12: one delivery mechanism per attempt: setIgnition launches no external
\* command, setIgnitionForS390X leaves the extra QEMU arguments as they were,
\* and what either consumes (the file= of the firmware directive, the source of
\* the remote upload) is the identifier returned by the one pool upload of the
\* attempt, which is assigned once.
C12_OneDeliveryMechanism ==
    /\ [](\A p \in procs :
            /\ entry[p] = "setIgnition" => issued[p] = <<>>
            /\ entry[p] = "setIgnitionForS390X" => qemuArgs[p] = qemuArgs0[p]
            /\ (entry[p] = "setIgnition" /\ ret[p] = "ok")
                  => qemuArgs[p][Len(qemuArgs[p])] = Str(FwCfgName) \o VolumeKey(p)
            /\ \A i \in 1..Len(issued[p]) :
                  issued[p][i].step = "upload" => UploadSource(issued[p][i]) = VolumeKey(p))
    /\ [][\A p \in procs :
            volId'[p] # volId[p]
                => (pc[p] = "uploadVolume" /\ volId[p] = <<>> /\ volId'[p] = VolumeKey(p))]_vars

\* an attempt on the filesystem-injection path, for a domain that had extra
\* arguments, after its last remote command
C12_Witness ==
    \E p \in procs :
        /\ entry[p] = "setIgnitionForS390X"
        /\ qemuArgs0[p] # <<>>
        /\ Len(issued[p]) = Len(StepOrder)
        /\ Returned(p)

-----------------------------------------------------------------------------
(* Properties of the packaged volume *)

\* createAndUpload is about to call uploadVolume (line 298)
UploadRequested(p) == pc[p] = "uploadVolume"

\* C13: when the pool upload is requested the temporary file still exists and
\* the descriptor handed over has capacity unit "B", format "raw" and a capacity
\* value equal to the byte length of that file, neither rounded nor padded.
C13_VolumeDescriptor ==
    \A p \in procs :
        UploadRequested(p) =>
            /\ volume[p].unit = "B"
            /\ volume[p].format = "raw"
            /\ TmpOf(p) # {}
            /\ \A f \in TmpOf(p) : volume[p].value = Len(f.bytes)

\* the upload of a one-byte payload is requested
C13_Witness ==
    \E p \in procs :
        /\ UploadRequested(p)
        /\ \E f \in TmpOf(p) : Len(f.bytes) = 1

-----------------------------------------------------------------------------
(* Properties of the materialized file *)

\* the bytes the payload stands for: the named file's, or the payload itself
SourceBytes(c) ==
    IF StatOk(c)
    THEN IF LocalFiles[c].kind = "file" THEN LocalFiles[c].bytes ELSE <<>>
    ELSE c

IsPrefix(a, b) == Len(a) <= Len(b) /\ SubSeq(b, 1, Len(a)) = a

\* createFile has returned the name of the temporary file
Materialized(p) == pc[p] \in {"newImage", "uploadVolume"}

\* C14: once createFile has succeeded, the temporary file holds the inline
\* payload byte for byte (white space included, nothing re-serialized), or the
\* bytes of the file the payload names; at any time the temporary file holds a
\* prefix of those bytes and nothing else, and it is empty when createFile
\* failed before writing.
C14_RoundTrip ==
    \A p \in procs :
        /\ Materialized(p) => TmpOf(p) = {[owner |-> p, bytes |-> SourceBytes(content[p])]}
        /\ \A f \in TmpOf(p) : IsPrefix(f.bytes, SourceBytes(content[p]))
        /\ (Returned(p) /\ err[p].kind \in {InvalidConfiguration, "Error opening supplied Ignition file "})
              => \A f \in TmpOf(p) : f.bytes = <<>>

\* an inline document with white space in it has been materialized
C14_Witness ==
    \E p \in procs :
        /\ Materialized(p)
        /\ content[p] = <<"{", " ", "}">>

-----------------------------------------------------------------------------
(* Properties of the cleanup *)

\* createAndUpload has returned to the entry function
UploadReturned(p) == pc[p] \notin BeforeReturnOfUpload

\* C15: what createAndUpload returns is what the upload or the earlier failing
\* step produced, whether or not the removal of the temporary file succeeded
\* (the removal's error is never returned and a successful upload still yields
\* its identifier), and on every path that created a temporary file, the
\* failing ones included, the removal has been attempted by the time
\* createAndUpload returns.
C15_RemovalNeverEscalates ==
    \A p \in procs :
        /\ err[p].kind # "remove"
        /\ (UploadReturned(p) /\ volume[p] # NoVolume
              /\ err[p].kind \notin {"newImage", "size", "uploadVolume"})
              => volId[p] = VolumeKey(p)
        /\ (UploadReturned(p) /\ tmpFile[p] # "none") => tmpFile[p] \in RemoveOutcomes

-----------------------------------------------------------------------------
(* Progress of the session *)

\* the next step of injectIgnitionByGuestfish in attempt p, listen output as documented
SessionStep(p) ==
    \/ Listen(p)
    \/ ReadOutput(p, HandleLines(p))
    \/ CaptureHandle(p)
    \/ Run(p)
    \/ Lookup(p, UsualLookups)
    \/ FindBoot(p)
    \/ Mount(p)
    \/ Upload(p)
    \/ Umount(p)
    \/ Exit(p)

\* the goroutine of every attempt keeps being scheduled; nothing is assumed of
\* the launched listen process, which may hold its stdout open for as long as it runs
SpecListening == InitConc /\ [][NextConc]_vars /\ \A p \in Attempts : WF_vars(SessionStep(p))

\* C16: once the listen process has started, startCmd returns to the session
\* without waiting for the process to end or to close its output stream: an
\* attempt that is reading the listen output eventually leaves that step, also
\* when the process keeps running with its stdout open.
C16_ListenReturns ==
    \A p \in Attempts : (pc[p] = "readOutput") ~> (pc[p] # "readOutput")

-----------------------------------------------------------------------------
(* Properties of the secret lookup *)

SecretNotSet == "ignition.userDataSecret not set"

SecretErrors ==
    {SecretNotSet, "can not retrieve user data secret", "key 'userData' not found in the secret"}

\* C17: an attempt that ended on a secret error (name unset, secret not
\* retrievable, no userData key) returned an error and has created no temporary
\* file, requested no upload, launched no process and left the domain's
\* arguments alone; the secret store is asked only for a non-empty name, and an
\* attempt with an unset name has returned the not-set error at once.
C17_SecretErrorsNoSideEffects ==
    \A p \in procs :
        /\ (Returned(p) /\ err[p].kind \in SecretErrors)
              => /\ ret[p] = "error"
                 /\ tmpFile[p] = "none" /\ TmpOf(p) = {}
                 /\ volume[p] = NoVolume /\ volId[p] = <<>>
                 /\ issued[p] = <<>> /\ stream[p] = "none"
                 /\ qemuArgs[p] = qemuArgs0[p]
        /\ pc[p] = "secret" => secretName[p] # <<>>
        /\ (entry[p] # "none" /\ secretName[p] = <<>>)
              => (Returned(p) /\ err[p].kind = SecretNotSet)

\* an attempt for a domain with extra arguments whose secret had no userData key
C17_Witness ==
    \E p \in procs :
        /\ Returned(p)
        /\ err[p].kind = "key 'userData' not found in the secret"
        /\ qemuArgs0[p] # <<>>

-----------------------------------------------------------------------------
(* Properties of the firmware path on failure *)

\* C18: whenever setIgnition has returned an error, of the secret lookup, of the
\* resolver, of the size probe or of the upload, the extra QEMU arguments of the
\* domain are what they were before the call; they differ from that only once
\* setIgnition has returned success.
C18_NoPartialDomain ==
    \A p \in procs :
        entry[p] = "setIgnition" =>
            /\ ret[p] = "error" => qemuArgs[p] = qemuArgs0[p]
            /\ qemuArgs[p] # qemuArgs0[p] => ret[p] = "ok"

\* setIgnition failed on the upload, for a domain that had extra arguments
C18_Witness ==
    \E p \in procs :
        /\ entry[p] = "setIgnition"
        /\ ret[p] = "error"
        /\ err[p].kind = "uploadVolume"
        /\ qemuArgs0[p] # <<>>

-----------------------------------------------------------------------------
(* Properties of the filesystem-injection path *)

\* no command of the session names the temporary file, and the source of the
\* remote upload is the identifier the pool upload returned
SessionUsesVolume(p) ==
    /\ \A i \in 1..Len(issued[p]) :
          /\ \A k \in 1..Len(issued[p][i].argv) : issued[p][i].argv[k] # TmpPath(p)
          /\ issued[p][i].step = "upload"
                => (UploadSource(issued[p][i]) = volId[p] /\ volId[p] = VolumeKey(p))

\* C19 as stated: on the filesystem-injection path the remote upload takes the
\* identifier returned by the pool upload, no command names the temporary file,
\* and the temporary file is gone once listen has been launched.
C19_TempFileGoneBeforeListen ==
    \A p \in procs :
        entry[p] = "setIgnitionForS390X" =>
            /\ SessionUsesVolume(p)
            /\ issued[p] # <<>> => TmpOf(p) = {}

\* C19 as amended: the same, with the removal of the temporary file attempted
\* before listen is launched, and the file gone unless os.Remove failed.
C19_RemovalAttemptedBeforeListen ==
    \A p \in procs :
        entry[p] = "setIgnitionForS390X" =>
            /\ SessionUsesVolume(p)
            /\ issued[p] # <<>> =>
                  /\ tmpFile[p] \in RemoveOutcomes
                  /\ tmpFile[p] = "removed" => TmpOf(p) = {}

\* the remote upload has been issued after the temporary file was removed
C19_Witness ==
    \E p \in procs :
        /\ entry[p] = "setIgnitionForS390X"
        /\ tmpFile[p] = "removed"
        /\ \E i \in 1..Len(issued[p]) : issued[p][i].step = "upload"

-----------------------------------------------------------------------------
(* Termination of the attempt *)

\* the next step of the entry function in attempt p
AttemptStep(p) ==
    \/ Call(p)
    \/ GetSecret(p)
    \/ CreateFile(p)
    \/ Probe(p)
    \/ UploadVolume(p)
    \/ SetFwCfg(p)
    \/ Listen(p)
    \/ ReadOutput(p, ListenOutputs(p))
    \/ CaptureHandle(p)
    \/ Run(p)
    \/ Lookup(p, LookupOutputs)
    \/ FindBoot(p)
    \/ Mount(p)
    \/ Upload(p)
    \/ Umount(p)
    \/ Exit(p)

\* the goroutine of every attempt keeps being scheduled and every external
\* command invocation returns: the listen process's output reaches end of file
SpecTerminating ==
    /\ Init
    /\ [][Next]_vars
    /\ \A p \in Attempts : WF_vars(AttemptStep(p)) /\ WF_vars(CloseStdout(p))

AllStepsSucceeded(p) ==
    /\ Len(issued[p]) = Len(StepOrder)
    /\ \A i \in 1..Len(issued[p]) : AdapterOk(issued[p][i])

\* C20: every filesystem-injection attempt terminates, external commands
\* returning: an attempt that has begun the session eventually returns, and it
\* returns either success, exactly when all seven steps from listen to exit
\* succeeded, or an error, with the failing step the last one issued.
C20_Terminates ==
    /\ \A p \in Attempts : (pc[p] = "listen") ~> Returned(p)
    /\ [](\A p \in procs :
            (Returned(p) /\ issued[p] # <<>>) =>
                /\ ret[p] \in {"ok", "error"}
                /\ ret[p] = "ok" <=> AllStepsSucceeded(p)
                /\ ret[p] = "error" =>
                      \A i \in 1..(Len(issued[p]) - 1) : AdapterOk(issued[p][i]))

====
